---- MODULE Spec2Model ----
(***************************************************************************)
(* Model of the record store (src/src/database.py), the credential        *)
(* manager (src/src/auth.py) and the start-up of main (src/main.py) of     *)
(* reportes-clientes.  The SQLite tables are sets of rows; every method    *)
(* is one action that runs its statement atomically (a failing statement   *)
(* leaves the table untouched and the call raises).  `last` records the    *)
(* call just made and its outcome so that results can be related to the    *)
(* store contents; `pc` is the place a run of main has reached.            *)
(***************************************************************************)
EXTENDS Integers, Sequences, FiniteSets, TLC

VARIABLES clients,      \* rows of table clients
          clients_seq,  \* sqlite_sequence entry of clients (AUTOINCREMENT)
          reports,      \* rows of table reports
          reports_seq,  \* sqlite_sequence entry of reports
          report_data,  \* rows of table report_data
          users,        \* rows of table users
          users_seq,    \* sqlite_sequence entry of users
          now,          \* UTC wall clock, in clock ticks
          tz,           \* offset of the local time zone from UTC, in ticks
          last,         \* the store call just made: op, arguments, outcome
          pc,           \* where a run of main() stands
          current_user, \* MainMenu.current_user: {} for None, or {user}
          issued,       \* history: the ids create_client has returned
          files         \* the export files on disk: content by name

vars == <<clients, clients_seq, reports, reports_seq, report_data,
          users, users_seq, now, tz, last, pc, current_user, issued,
          files>>

(* ------------------------------ bounds -------------------------------- *)
MaxClientId == 2    \* largest client id the model hands out or re-keys to
MaxReportId == 1    \* largest report id the model hands out
MaxUserId == 2      \* largest user id the model hands out
MaxTicks == 2       \* clock ticks that elapse during a run
MaxStatReports == 3 \* reports made in the runs that count reports
MaxStatClients == 12 \* clients made in the runs that count clients

(* ------------------------------ values -------------------------------- *)
NULL == "NULL"      \* SQL NULL, Python None

Emails == {"ana@x.com", "bo@x.com"}
OptFields == {"phone", "company", "address", "city", "country"}
EditableFields == {"name", "email"} \cup OptFields
Columns == {"id", "created_at", "updated_at"} \cup EditableFields
NotNullColumns == {"name", "email"}
ClientIds == 1..MaxClientId
TZOffsets == {-1, 0, 1}

(* A value for each optional column when it is supplied. *)
OptValue(f) ==
    CASE f = "phone" -> "555"
      [] f = "company" -> "Acme"
      [] f = "address" -> "Calle 1"
      [] f = "city" -> "Lima"
      [] f = "country" -> "PE"

(* The subsets of optional fields a caller supplies. *)
SuppliedSets == {{}, {"phone", "city"}}

(* Arguments of create_client: name, email and the optional fields, an *)
(* unsupplied one taking its default None.                               *)
ClientInputs ==
    {[f \in EditableFields |->
        IF f = "name" THEN "Ana"
        ELSE IF f = "email" THEN e
        ELSE IF f \in S THEN OptValue(f) ELSE NULL] :
     e \in Emails, S \in SuppliedSets}

(* ------------------------------ time ---------------------------------- *)
(* Stored timestamps are text.  A text is kept as the date and time it   *)
(* shows (in ticks, the text names no zone) and its separator: SQLite    *)
(* writes "YYYY-MM-DD HH:MM:SS", isoformat() "YYYY-MM-DDTHH:MM:SS.ffffff". *)
Timestamp(shown, sep) == [shown |-> shown, sep |-> sep]

(* SQLite CURRENT_TIMESTAMP: the UTC date and time. *)
CurrentTimestamp(t) == Timestamp(t, " ")

(* datetime.now().isoformat(): the date and time of the local zone. *)
IsoFormatNow(t, offset) == Timestamp(t + offset, "T")

(* Timestamp a shows a later date and time than timestamp b. *)
Later(a, b) == a.shown > b.shown

(* ----------------------------- connection ----------------------------- *)
(* A connection on which PRAGMA foreign_keys = ON was issued. *)
ForeignKeysOn_Enabled == TRUE

(* get_connection returns sqlite3.connect(db_path) and issues no        *)
(* PRAGMA foreign_keys = ON: the FOREIGN KEY clauses are not enforced.  *)
ForeignKeysOn == FALSE

(* ------------------------------ clients ------------------------------- *)
(* A statement whose WHERE clause is missing selects every row. *)
RowsWhereId_All(rows, id) == rows

(* The rows a statement's "WHERE id = ?" selects. *)
RowsWhereId(rows, id) == {r \in rows : r.id = id}

(* SELECT * FROM clients WHERE id = ?  -> the row, or NULL when absent. *)
Found(cs, id) == \E r \in cs : r.id = id

get_client(cs, id) ==
    IF Found(cs, id) THEN CHOOSE r \in cs : r.id = id ELSE NULL

MaxOf(S) == CHOOSE m \in S : \A x \in S : x <= m

(* INTEGER PRIMARY KEY without AUTOINCREMENT: one more than the largest *)
(* rowid in the table.                                                  *)
NextRowId_NoAutoincrement(rows, seq) == MaxOf({0} \cup {r.id : r \in rows}) + 1

(* AUTOINCREMENT: one more than the largest rowid ever inserted or held. *)
NextRowId(rows, seq) == MaxOf({seq} \cup {r.id : r \in rows}) + 1

(* The clients schema with UNIQUE left off the email column. *)
ClientViolates_NoUnique(others, row) ==
    \/ \E c \in NotNullColumns : row[c] = NULL
    \/ \E o \in others : o.id = row.id

(* Schema constraints of clients for a candidate row against the other  *)
(* rows: NOT NULL name/email, UNIQUE email, PRIMARY KEY id.               *)
ClientViolates(others, row) ==
    \/ \E c \in NotNullColumns : row[c] = NULL
    \/ \E o \in others : o.email = row.email
    \/ \E o \in others : o.id = row.id

(* An INSERT that stamps updated_at from the application clock. *)
NewClientRow_AppStamped(id, inp, t) ==
    [c \in Columns |->
        IF c = "id" THEN id
        ELSE IF c = "created_at" THEN CurrentTimestamp(t)
        ELSE IF c = "updated_at" THEN IsoFormatNow(t, 0)
        ELSE inp[c]]

(* Row inserted by create_client: the supplied values, both timestamps *)
(* taking the column default CURRENT_TIMESTAMP.                         *)
NewClientRow(id, inp, t) ==
    [c \in Columns |->
        IF c = "id" THEN id
        ELSE IF c \in {"created_at", "updated_at"} THEN CurrentTimestamp(t)
        ELSE inp[c]]

Call(op, args, raised, ret) ==
    [op |-> op, args |-> args, raised |-> raised, ret |-> ret]

Init ==
    /\ clients = {}
    /\ clients_seq = 0
    /\ reports = {}
    /\ reports_seq = 0
    /\ report_data = {}
    /\ users = {}
    /\ users_seq = 0
    /\ now = 0
    /\ tz \in TZOffsets
    /\ last = Call("initialize_database", <<>>, "none", NULL)
    /\ pc = "main"
    /\ current_user = {}
    /\ issued = {}
    /\ files = <<>>

(* create_client(name, email, phone, company, address, city, country), *)
(* issued while fewer than max clients were ever made.                  *)
CreateClientWithin(inp, max) ==
    LET id == NextRowId(clients, clients_seq)
        row == NewClientRow(id, inp, now)
    IN  /\ id <= max
        /\ IF ClientViolates(clients, row)
           THEN /\ last' = Call("create_client", inp, "IntegrityError", 0)
                /\ UNCHANGED <<clients, clients_seq, issued>>
           ELSE /\ clients' = clients \cup {row}
                /\ clients_seq' = id
                /\ last' = Call("create_client", inp, "none", id)
                /\ issued' = issued \cup {id}
        /\ UNCHANGED <<reports, reports_seq, report_data, users, users_seq,
                       now, tz>>

CreateClient(inp) == CreateClientWithin(inp, MaxClientId)

(* kwargs after update_client has added kwargs['updated_at'] = now. *)
Stamped(kw, t, offset) ==
    [c \in DOMAIN kw \cup {"updated_at"} |->
        IF c = "updated_at" THEN IsoFormatNow(t, offset) ELSE kw[c]]

(* An UPDATE that rewrites the whole row, clearing what was not named. *)
ApplySet_WholeRow(row, set) ==
    [c \in Columns |->
        IF c \in DOMAIN set THEN set[c]
        ELSE IF c \in OptFields THEN NULL ELSE row[c]]

(* UPDATE clients SET <key = value for every key> on one row. *)
ApplySet(row, set) ==
    [c \in Columns |-> IF c \in DOMAIN set THEN set[c] ELSE row[c]]

(* update_client without its early return. *)
NoFields_Never(kw) == FALSE

(* "if not kwargs": no field was named. *)
NoFields(kw) == DOMAIN kw = {}

(* A failing update that keeps every assignment but the email's. *)
AbortStatement_KeepOthers(row, attempted) ==
    [c \in Columns |-> IF c = "email" THEN row[c] ELSE attempted[c]]

(* A statement that fails a constraint is undone (conflict resolution *)
(* ABORT) and "with conn" rolls the transaction back: the row stays   *)
(* as it was.                                                         *)
AbortStatement(row, attempted) == row

(* update_client(client_id, **kwargs).  The call reads the local clock   *)
(* once; it lasts longer than the clock's resolution, so the next call   *)
(* reads a later instant.                                                *)
UpdateClient(id, kw) ==
    LET args == [id |-> id, kw |-> kw]
    IN  IF NoFields(kw)
        THEN /\ last' = Call("update_client", args, "none", FALSE)
             /\ UNCHANGED <<clients, clients_seq, reports, reports_seq,
                            report_data, users, users_seq, now, tz, issued>>
        ELSE /\ now < MaxTicks
             /\ now' = now + 1
             /\ LET row == get_client(clients, id)
                    new == ApplySet(row, Stamped(kw, now, tz))
                IN  IF ~Found(clients, id)
                    THEN /\ last' = Call("update_client", args, "none", FALSE)
                         /\ UNCHANGED clients
                    ELSE IF ClientViolates(clients \ {row}, new)
                    THEN /\ last' = Call("update_client", args,
                                         "IntegrityError", FALSE)
                         /\ clients' = (clients \ {row}) \cup
                                           {AbortStatement(row, new)}
                    ELSE /\ clients' = (clients \ {row}) \cup {new}
                         /\ last' = Call("update_client", args, "none", TRUE)
             /\ UNCHANGED <<clients_seq, reports, reports_seq, report_data,
                            users, users_seq, tz, issued>>

(* delete_client(client_id): DELETE FROM clients WHERE id = ?.  The    *)
(* method never looks at reports; only an enforced foreign key would    *)
(* make the statement fail for a client that owns reports.              *)
DeleteClient(id) ==
    LET hit == RowsWhereId(clients, id)
        args == [id |-> id]
    IN  /\ IF ForeignKeysOn /\ \E r \in reports, c \in hit : r.client_id = c.id
           THEN /\ last' = Call("delete_client", args, "IntegrityError", FALSE)
                /\ UNCHANGED clients
           ELSE /\ clients' = clients \ hit
                /\ last' = Call("delete_client", args, "none", hit # {})
        /\ UNCHANGED <<clients_seq, reports, reports_seq, report_data,
                       users, users_seq, now, tz, issued>>

(* ORDER BY created_at ASC: the rows that may come first. *)
FirstByCreatedAt_Asc(rows) ==
    {m \in rows : \A o \in rows : ~Later(m.created_at, o.created_at)}

(* ORDER BY created_at DESC: the rows that may come first, those whose   *)
(* created_at no other row exceeds.  Every created_at is written by      *)
(* CURRENT_TIMESTAMP in one format, so the order of the texts is the     *)
(* order of the instants they show.                                      *)
FirstByCreatedAt(rows) ==
    {m \in rows : \A o \in rows : ~Later(o.created_at, m.created_at)}

(* The row lists the ordered SELECT may return: rows with equal          *)
(* created_at come in any order.                                         *)
RECURSIVE OrderByCreatedAtDesc(_)
OrderByCreatedAtDesc(rows) ==
    IF rows = {} THEN {<<>>}
    ELSE UNION {{<<r>> \o rest : rest \in OrderByCreatedAtDesc(rows \ {r})} :
                r \in FirstByCreatedAt(rows)}

(* get_all_clients(): SELECT * FROM clients ORDER BY created_at DESC *)
GetAllClients ==
    /\ \E rows \in OrderByCreatedAtDesc(clients) :
          last' = Call("get_all_clients", <<>>, "none", rows)
    /\ UNCHANGED <<clients, clients_seq, reports, reports_seq, report_data,
                   users, users_seq, now, tz, issued>>

(* ------------------------------ exports ------------------------------- *)
(* columns_order of the client list exports *)
columns_order ==
    <<"id", "name", "email", "phone", "company", "address", "city",
      "country", "created_at">>

(* "df.columns = [...]": the headers, in the order of the columns     *)
(* (written here without their accents)                               *)
Headers ==
    <<"ID", "Nombre", "Email", "Telefono", "Empresa", "Direccion", "Ciudad",
      "Pais", "Fecha de Registro">>

(* A cell as to_excel and to_csv write it: pandas writes a missing   *)
(* value (None) as its na_rep, the empty text, and any other value   *)
(* as it is.                                                          *)
Cell(client, column) ==
    IF column \in EditableFields /\ client[column] = NULL THEN ""
    ELSE client[column]

(* The sheet written for a list of clients: the header row (index=False *)
(* writes no index column), then one row per client in list order.       *)
Sheet(list) ==
    <<Headers>> \o
    [i \in 1..Len(list) |->
        [k \in 1..Len(columns_order) |-> Cell(list[i], columns_order[k])]]

(* The extension of each kind of list. *)
Extension(kind) == IF kind = "excel" THEN "xlsx" ELSE "csv"

(* "lista_clientes_<YYYYMMDD_HHMMSS>.<ext>", stamped with the local time *)
ListFileName(t, offset, kind) ==
    <<"lista_clientes", t + offset, Extension(kind)>>

(* generate_clients_list_excel(clients) and                             *)
(* generate_clients_list_csv(clients), on a list get_all_clients()      *)
(* returned: the file is written, replacing one of the same name, and   *)
(* its path is returned.                                                *)
GenerateClientsList(kind) ==
    LET path == ListFileName(now, tz, kind)
    IN  /\ \E list \in OrderByCreatedAtDesc(clients) :
              /\ files' = [n \in DOMAIN files \cup {path} |->
                              IF n = path THEN Sheet(list) ELSE files[n]]
              /\ last' = Call("generate_clients_list_" \o kind, list, "none",
                              path)
        /\ UNCHANGED <<clients, clients_seq, reports, reports_seq,
                       report_data, users, users_seq, now, tz, issued>>

(* ------------------------------ reports ------------------------------- *)
(* Row inserted by create_report; status and both timestamps take the *)
(* column defaults.                                                    *)
NewReportRow(id, client_id, title, description, report_type, t) ==
    [id |-> id, client_id |-> client_id, title |-> title,
     description |-> description, report_type |-> report_type,
     status |-> "pending",
     created_at |-> CurrentTimestamp(t), updated_at |-> CurrentTimestamp(t)]

(* create_report(client_id, title, description, report_type), issued   *)
(* while fewer than max reports were ever made: the method does not   *)
(* look the client up.                                                 *)
CreateReportWithin(client_id, title, description, report_type, max) ==
    LET id == NextRowId(reports, reports_seq)
        args == [client_id |-> client_id, title |-> title,
                 description |-> description, report_type |-> report_type]
    IN  /\ id <= max
        /\ IF ForeignKeysOn /\ ~Found(clients, client_id)
           THEN /\ last' = Call("create_report", args, "IntegrityError", 0)
                /\ UNCHANGED <<reports, reports_seq>>
           ELSE /\ reports' = reports \cup
                      {NewReportRow(id, client_id, title, description,
                                    report_type, now)}
                /\ reports_seq' = id
                /\ last' = Call("create_report", args, "none", id)
        /\ UNCHANGED <<clients, clients_seq, report_data, users, users_seq,
                       now, tz, issued>>

CreateReport(client_id, title, description, report_type) ==
    CreateReportWithin(client_id, title, description, report_type,
                       MaxReportId)

(* A signature whose report_type parameter defaults to None. *)
ReportDefaults_NoType == [description |-> NULL, report_type |-> NULL]

(* Parameter defaults in the signature of create_report. *)
ReportDefaults == [description |-> NULL, report_type |-> "general"]

(* The parameters of a call that passes the arguments in given, the *)
(* others taking their defaults.                                     *)
WithDefaults(given) ==
    [a \in {"title", "description", "report_type"} |->
        IF a \in DOMAIN given THEN given[a] ELSE ReportDefaults[a]]

(* A call create_report(client_id, **given). *)
CreateReportCall(client_id, given, max) ==
    LET a == WithDefaults(given)
    IN  CreateReportWithin(client_id, a.title, a.description, a.report_type,
                           max)

(* ----------------------------- statistics ----------------------------- *)
(* SELECT col, COUNT FROM rows GROUP BY col: one (value, count) pair     *)
(* for each value of the column.                                        *)
GroupCount(rows, col) ==
    {<<v, Cardinality({r \in rows : r[col] = v})>> : v \in {r[col] : r \in rows}}

(* dict(cursor.fetchall()) on (key, value) pairs. *)
Dict(pairs) ==
    [k \in {p[1] : p \in pairs} |-> (CHOOSE p \in pairs : p[1] = k)[2]]

(* LIMIT 10 of the cities query. *)
TopCities == 10

(* The orders in which SQLite may hand out groups of equal count: the  *)
(* statement orders by count alone.  Groups leave GROUP BY in the      *)
(* order of their key; the sorter may keep that order or reverse it.   *)
TieBreaks == {1, -1}

(* City of the k-th client made when it is no other client's city. *)
CityName(k) == IF k = 0 THEN "Lima" ELSE "Ciudad" \o ToString(k)

(* Position of a city name in the order of the texts. *)
CityIndex(c) == CHOOSE k \in 0..(MaxStatClients + 1) : CityName(k) = c

(* ORDER BY count DESC: group p comes before group q. *)
Precedes(p, q, tie) ==
    \/ p[2] > q[2]
    \/ p[2] = q[2] /\ tie * CityIndex(p[1]) < tie * CityIndex(q[1])

(* The (city, count) rows in the order of the statement. *)
RECURSIVE OrderByCountDesc(_, _)
OrderByCountDesc(pairs, tie) ==
    IF pairs = {} THEN <<>>
    ELSE LET p == CHOOSE p \in pairs :
                     \A q \in pairs \ {p} : Precedes(p, q, tie)
         IN  <<p>> \o OrderByCountDesc(pairs \ {p}, tie)

(* A statement without its LIMIT clause. *)
Limit_None(rows, n) == rows

(* LIMIT n *)
Limit(rows, n) == SubSeq(rows, 1, IF Len(rows) < n THEN Len(rows) ELSE n)

(* get_client_stats(); clients_by_city is the dict of the ordered rows, *)
(* kept as the list of its items in insertion order.                    *)
get_client_stats(cs, tie) ==
    [total_clients |-> Cardinality(cs),
     clients_by_country |->
         Dict(GroupCount({r \in cs : r.country # NULL}, "country")),
     clients_by_city |->
         Limit(OrderByCountDesc(
                   GroupCount({r \in cs : r.city # NULL}, "city"), tie),
               TopCities)]

(* FROM reports r JOIN clients c ON r.client_id = c.id *)
FromReports_Joined(rs, cs) == {r \in rs : Found(cs, r.client_id)}

(* FROM reports *)
FromReports(rs, cs) == rs

(* get_report_stats() *)
get_report_stats(rs, cs) ==
    [total_reports |-> Cardinality(FromReports(rs, cs)),
     reports_by_status |-> Dict(GroupCount(FromReports(rs, cs), "status")),
     reports_by_type |-> Dict(GroupCount(FromReports(rs, cs), "report_type"))]

(* A report row of "SELECT r.*, c.name as client_name". *)
WithClientName(r, name) ==
    [c \in DOMAIN r \cup {"client_name"} |->
        IF c = "client_name" THEN name ELSE r[c]]

(* A LEFT JOIN, which keeps a report with no client. *)
JoinClients_Left(rs, cs) ==
    {WithClientName(p[1], p[2].name) :
        p \in {q \in rs \X cs : q[1].client_id = q[2].id}}
    \cup {WithClientName(r, NULL) : r \in {o \in rs : ~Found(cs, o.client_id)}}

(* FROM reports r JOIN clients c ON r.client_id = c.id *)
JoinClients(rs, cs) ==
    {WithClientName(p[1], p[2].name) :
        p \in {q \in rs \X cs : q[1].client_id = q[2].id}}

(* get_all_reports(): the lists the ordered SELECT may return *)
get_all_reports(rs, cs) == OrderByCreatedAtDesc(JoinClients(rs, cs))

(* get_reports_by_client(client_id): the lists it may return *)
get_reports_by_client(rs, cs, client_id) ==
    OrderByCreatedAtDesc({j \in JoinClients(rs, cs) : j.client_id = client_id})

GetAllReports ==
    /\ \E rows \in get_all_reports(reports, clients) :
          last' = Call("get_all_reports", <<>>, "none", rows)
    /\ UNCHANGED <<clients, clients_seq, reports, reports_seq, report_data,
                   users, users_seq, now, tz, issued>>

GetReportsByClient(client_id) ==
    /\ \E rows \in get_reports_by_client(reports, clients, client_id) :
          last' = Call("get_reports_by_client", [client_id |-> client_id],
                       "none", rows)
    /\ UNCHANGED <<clients, clients_seq, reports, reports_seq, report_data,
                   users, users_seq, now, tz, issued>>

(* get_report_stats() as a call *)
GetReportStats ==
    /\ last' = Call("get_report_stats", <<>>, "none",
                    get_report_stats(reports, clients))
    /\ UNCHANGED <<clients, clients_seq, reports, reports_seq, report_data,
                   users, users_seq, now, tz, issued>>

(* ------------------------------- users -------------------------------- *)
Usernames == {"admin", "eva"}
UserIds == 1..MaxUserId

(* bcrypt keys: the algorithm reads at most this many bytes of a password. *)
MaxKeyBytes == 72

(* Passwords, as the bytes password.encode('utf-8') hands to bcrypt.    *)
(* The long ones are 73 bytes and differ in the last byte only.         *)
Pw1 == <<"p", "w", "1">>
Pw2 == <<"p", "w", "2">>
Pad == [i \in 1..MaxKeyBytes |-> "a"]
Long1 == Pad \o <<"1">>
Long2 == Pad \o <<"2">>
Passwords == {Pw1, Pw2}
LongPasswords == {Long1, Long2}

(* Salts bcrypt.gensalt() may return. *)
Salts == {"s1", "s2", "s3"}

(* The part of a password bcrypt hashes: its first 72 bytes. *)
Key(password) ==
    SubSeq(password, 1,
           IF Len(password) < MaxKeyBytes THEN Len(password) ELSE MaxKeyBytes)

(* bcrypt.hashpw(password, salt): the hash text carries the salt and a *)
(* digest determined by the salt and the key.                          *)
hashpw(password, salt) == [salt |-> salt, digest |-> <<salt, Key(password)>>]

(* hash_password: bcrypt.gensalt() draws the salt. *)
hash_password(password, salt) == hashpw(password, salt)

(* verify_password: bcrypt.checkpw re-hashes the candidate with the salt *)
(* stored in the hash and compares.                                      *)
verify_password(password, hashed) == hashpw(password, hashed.salt) = hashed

(* Salts of the hashes at hand: the stored ones and the one just made. *)
SaltsInUse ==
    {u.password_hash.salt : u \in users}
    \cup (IF last.op = "hash_password" THEN {last.ret.salt} ELSE {})

(* bcrypt.gensalt(): 16 random bytes, taken never to repeat a salt of a *)
(* hash at hand.                                                        *)
GenSalt == Salts \ SaltsInUse

(* AuthManager.hash_password(password) *)
HashPassword(password) ==
    /\ \E salt \in GenSalt :
          last' = Call("hash_password", [password |-> password], "none",
                       hash_password(password, salt))
    /\ UNCHANGED <<clients, clients_seq, reports, reports_seq, report_data,
                   users, users_seq, now, tz, issued>>

(* AuthManager.verify_password(password, hashed), on the hash made or *)
(* verified by the call before; made_from is the password the hash    *)
(* was made from.                                                     *)
VerifyPassword(password) ==
    /\ last.op \in {"hash_password", "verify_password"}
    /\ LET hashed == IF last.op = "hash_password" THEN last.ret
                     ELSE last.args.hashed
           made_from == IF last.op = "hash_password" THEN last.args.password
                        ELSE last.args.made_from
       IN  last' = Call("verify_password",
                        [password |-> password, hashed |-> hashed,
                         made_from |-> made_from],
                        "none", verify_password(password, hashed))
    /\ UNCHANGED <<clients, clients_seq, reports, reports_seq, report_data,
                   users, users_seq, now, tz, issued>>

(* The users schema with UNIQUE left off the username column. *)
UserViolates_NoUnique(others, row) == FALSE

(* Schema constraint of users: UNIQUE username. *)
UserViolates(others, row) == \E o \in others : o.username = row.username

(* sqlite3 stores a Python bool as the integer 1 or 0. *)
AdaptBool(flag) == IF flag THEN 1 ELSE 0

(* bool(row[3]) *)
Bool(n) == n # 0

(* An INSERT OR REPLACE: the new row takes the place of the old one. *)
RejectInsert_Replace(rows, row) ==
    {u \in rows : u.username # row.username} \cup {row}

(* The table after an INSERT that failed a constraint: as it was. *)
RejectInsert(rows, row) == rows

(* create_user(username, password, is_admin); sqlite3.IntegrityError is *)
(* caught and turned into False.                                        *)
CreateUser(username, password, is_admin, salt) ==
    LET id == NextRowId(users, users_seq)
        row == [id |-> id, username |-> username,
                password_hash |-> hash_password(password, salt),
                is_admin |-> AdaptBool(is_admin),
                created_at |-> CurrentTimestamp(now)]
        args == [username |-> username, password |-> password,
                 is_admin |-> is_admin]
    IN  /\ id <= MaxUserId
        /\ IF UserViolates(users, row)
           THEN /\ last' = Call("create_user", args, "none", FALSE)
                /\ users' = RejectInsert(users, row)
                /\ UNCHANGED users_seq
           ELSE /\ users' = users \cup {row}
                /\ users_seq' = id
                /\ last' = Call("create_user", args, "none", TRUE)
        /\ UNCHANGED <<clients, clients_seq, reports, reports_seq,
                       report_data, now, tz, issued>>

(* The row authenticate_user accepts: the one with the username, when *)
(* the password verifies against its hash.                            *)
Accepted(us, username, password) ==
    {u \in us : /\ u.username = username
                /\ verify_password(password, u.password_hash)}

(* A summary that hands out the whole row. *)
Summary_WholeRow(u) ==
    [id |-> u.id, username |-> u.username, is_admin |-> Bool(u.is_admin),
     password_hash |-> u.password_hash]

(* The dict authenticate_user returns for a row. *)
Summary(u) ==
    [id |-> u.id, username |-> u.username, is_admin |-> Bool(u.is_admin)]

(* authenticate_user(username, password) -> the summary, or NULL *)
authenticate_user(us, username, password) ==
    IF Accepted(us, username, password) # {}
    THEN Summary(CHOOSE u \in Accepted(us, username, password) : TRUE)
    ELSE NULL

Authenticate(username, password) ==
    /\ last' = Call("authenticate_user",
                    [username |-> username, password |-> password], "none",
                    authenticate_user(users, username, password))
    /\ UNCHANGED <<clients, clients_seq, reports, reports_seq, report_data,
                   users, users_seq, now, tz, issued>>

(* A test for more than one user row. *)
user_exists_Several(us) == Cardinality(us) > 1

(* user_exists(): the row count of users is above 0. *)
user_exists(us) == Cardinality(us) > 0

UserExists ==
    /\ last' = Call("user_exists", <<>>, "none", user_exists(users))
    /\ UNCHANGED <<clients, clients_seq, reports, reports_seq, report_data,
                   users, users_seq, now, tz, issued>>

(* change_password(user_id, old_password, new_password) *)
ChangePassword(user_id, old_password, new_password, salt) ==
    LET hit == RowsWhereId(users, user_id)
        args == [user_id |-> user_id, old_password |-> old_password,
                 new_password |-> new_password]
    IN  /\ IF \E u \in hit : verify_password(old_password, u.password_hash)
           THEN /\ users' = (users \ hit) \cup
                      {[u EXCEPT !.password_hash =
                            hash_password(new_password, salt)] : u \in hit}
                /\ last' = Call("change_password", args, "none", TRUE)
           ELSE /\ UNCHANGED users
                /\ last' = Call("change_password", args, "none", FALSE)
        /\ UNCHANGED <<clients, clients_seq, reports, reports_seq,
                       report_data, users_seq, now, tz, issued>>

(* The clock advances. *)
Tick ==
    /\ now < MaxTicks
    /\ now' = now + 1
    /\ UNCHANGED <<clients, clients_seq, reports, reports_seq, report_data,
                   users, users_seq, tz, issued, last, pc, current_user>>

(* -------------------------------- main -------------------------------- *)
(* pc = "main": the database is initialized, user_exists() comes next;  *)
(* "bootstrap": main asks for the administrator's name and password;    *)
(* "menu": MainMenu.run() waits at the main menu; "dashboard": at the   *)
(* prompt of dashboard_menu; "clients": at the prompt of                *)
(* client_management_menu; "exit": main has returned.                   *)

(* A main that never asks for an administrator. *)
FirstRun_Never(us) == FALSE

(* "if not auth_manager.user_exists()" *)
FirstRun(us) == ~user_exists(us)

(* main() checks for a first run; with a user it builds the MainMenu   *)
(* (current_user = None) and runs it.                                  *)
MainCheck ==
    /\ pc = "main"
    /\ UserExists
    /\ pc' = IF FirstRun(users) THEN "bootstrap" ELSE "menu"
    /\ current_user' = {}

(* The first run: create_user(username, password, is_admin=True), whose *)
(* result main does not look at, then the menu.                         *)
MainBootstrap(username, password) ==
    /\ pc = "bootstrap"
    /\ \E salt \in GenSalt : CreateUser(username, password, TRUE, salt)
    /\ pc' = "menu"
    /\ current_user' = {}

(* The first run when a prompt is interrupted or create_user raises an  *)
(* error other than IntegrityError: nothing is written, main reports    *)
(* the error in its except clause and returns.                          *)
MainBootstrapRaises(username, password) ==
    /\ pc = "bootstrap"
    /\ last' = Call("create_user",
                    [username |-> username, password |-> password,
                     is_admin |-> TRUE], "Exception", NULL)
    /\ pc' = "exit"
    /\ UNCHANGED <<clients, clients_seq, reports, reports_seq, report_data,
                   users, users_seq, now, tz, issued, current_user>>

(* ------------------------------- shell -------------------------------- *)
(* A store call that fails in the driver (sqlite3.OperationalError:    *)
(* the file is locked, unreadable, a table is gone): nothing is        *)
(* written and the call raises.                                        *)
StoreFails(op, args) ==
    /\ last' = Call(op, args, "OperationalError", NULL)
    /\ UNCHANGED <<clients, clients_seq, reports, reports_seq, report_data,
                   users, users_seq, now, tz, issued>>

(* An exception no handler of the shell catches: run() and the menus   *)
(* have no try block, so it reaches the except clause of main, which   *)
(* prints it and returns.                                              *)
Uncaught(at) == "exit"

(* A register_menu that does not compare the two passwords. *)
Confirmed_Always(password, confirm_password) == TRUE

(* "if password != confirm_password: ... return" *)
Confirmed(password, confirm_password) == password = confirm_password

(* register_menu(): the typed name, password, confirmation and admin   *)
(* answer.  A handler that makes no store call is recorded in last     *)
(* under its own name.                                                 *)
MenuRegister(username, password, confirm_password, is_admin, fails) ==
    LET args == [username |-> username, password |-> password,
                 is_admin |-> is_admin]
    IN  /\ pc = "menu"
        /\ IF ~Confirmed(password, confirm_password)
           THEN /\ ~fails
                /\ last' = Call("register_menu", args, "none", FALSE)
                /\ UNCHANGED <<clients, clients_seq, reports, reports_seq,
                               report_data, users, users_seq, now, tz,
                               issued, pc>>
           ELSE IF fails
           THEN /\ StoreFails("create_user", args)
                /\ pc' = Uncaught(pc)
           ELSE /\ \E salt \in GenSalt :
                      CreateUser(username, password, is_admin, salt)
                /\ UNCHANGED pc
        /\ UNCHANGED current_user

(* show_dashboard(), at the top of every round of dashboard_menu: it   *)
(* reads get_client_stats() and get_report_stats().                    *)
ShowDashboard(fails) ==
    IF fails
    THEN /\ StoreFails("get_client_stats", <<>>)
         /\ pc' = Uncaught("dashboard")
    ELSE /\ last' = Call("get_report_stats", <<>>, "none",
                         get_report_stats(reports, clients))
         /\ pc' = "dashboard"
         /\ UNCHANGED <<clients, clients_seq, reports, reports_seq,
                        report_data, users, users_seq, now, tz, issued>>

(* The store calls of a handler that may fail. *)
Faults == {"none", "authenticate_user", "get_client_stats", "get_client",
           "update_client", "delete_client"}

(* "if user:" on the result of authenticate_user, which is a summary   *)
(* when a row was accepted and None when none was.                     *)
Granted(accepted) == accepted # {}

(* A login_menu that does not keep the user it let in. *)
Session_Nobody(user) == {}

(* "self.current_user = user" *)
Session(user) == {user}

(* login_menu(): authenticate_user, then on success current_user is    *)
(* set and dashboard_menu() starts.                                    *)
Login(username, password, fault) ==
    /\ pc = "menu"
    /\ fault \in {"none", "authenticate_user", "get_client_stats"}
    /\ IF fault = "authenticate_user"
       THEN /\ StoreFails("authenticate_user",
                          [username |-> username, password |-> password])
            /\ pc' = Uncaught(pc)
            /\ UNCHANGED current_user
       ELSE IF ~Granted(Accepted(users, username, password))
       THEN /\ fault = "none"
            /\ Authenticate(username, password)
            /\ UNCHANGED <<pc, current_user>>
       ELSE /\ current_user' =
                  Session(authenticate_user(users, username, password))
            /\ ShowDashboard(fault # "none")

(* A logout that keeps the user. *)
LoggedOut_Kept(user) == user

(* logout(): self.current_user = None *)
LoggedOut(user) == {}

(* Choice 6 of the dashboard: logout(), then break back to run(). *)
Logout ==
    /\ pc = "dashboard"
    /\ current_user' = LoggedOut(current_user)
    /\ pc' = "menu"
    /\ UNCHANGED <<clients, clients_seq, reports, reports_seq, report_data,
                   users, users_seq, now, tz, issued, last>>

(* Choices 2 to 5 of the dashboard: the report, export and settings   *)
(* menus make no store call, dashboard_stats_menu reads both          *)
(* statistics; the dashboard is shown again afterwards.               *)
DashboardChoice(fails) ==
    /\ pc = "dashboard"
    /\ ShowDashboard(fails)
    /\ UNCHANGED current_user

(* Choice 1 of the dashboard: client_management_menu(). *)
OpenClients ==
    /\ pc = "dashboard"
    /\ pc' = "clients"
    /\ UNCHANGED <<clients, clients_seq, reports, reports_seq, report_data,
                   users, users_seq, now, tz, issued, last, current_user>>

(* Choice 0 of the client menu: back to the dashboard. *)
CloseClients(fails) ==
    /\ pc = "clients"
    /\ ShowDashboard(fails)
    /\ UNCHANGED current_user

(* list_clients() and search_clients(): both read get_all_clients()   *)
(* outside any try block.                                              *)
ListClients(fails) ==
    /\ pc = "clients"
    /\ IF fails
       THEN StoreFails("get_all_clients", <<>>) /\ pc' = Uncaught(pc)
       ELSE GetAllClients /\ UNCHANGED pc
    /\ UNCHANGED current_user

(* "value or None" on a typed text. *)
OrNone(text) == IF text = "" THEN NULL ELSE text

(* "value or ''" on a stored value, the default of an edit prompt. *)
OrEmpty(value) == IF value = NULL THEN "" ELSE value

(* add_client(): create_client inside try / except Exception. *)
AddClient(typed, fails) ==
    LET inp == [f \in EditableFields |->
                  IF f \in OptFields THEN OrNone(typed[f]) ELSE typed[f]]
    IN  /\ pc = "clients"
        /\ IF fails THEN StoreFails("create_client", inp)
           ELSE CreateClient(inp)
        /\ UNCHANGED <<pc, current_user>>

(* The get_client(client_id) that opens edit_client and delete_client, *)
(* outside their try blocks, when it ends the handler: it raises, or   *)
(* it finds no client.                                                 *)
LookupEnds(id, fails) ==
    /\ IF fails
       THEN StoreFails("get_client", [id |-> id]) /\ pc' = Uncaught(pc)
       ELSE /\ ~Found(clients, id)
            /\ last' = Call("get_client", [id |-> id], "none", NULL)
            /\ UNCHANGED <<clients, clients_seq, reports, reports_seq,
                           report_data, users, users_seq, now, tz, issued,
                           pc>>

(* edit_client(): every field is passed to update_client, a field the *)
(* user leaves alone with its stored value; the update sits inside    *)
(* try / except Exception.                                            *)
EditClient(id, typed, fault) ==
    /\ pc = "clients"
    /\ fault \in {"none", "get_client", "update_client"}
    /\ IF fault = "get_client" \/ ~Found(clients, id)
       THEN fault # "update_client" /\ LookupEnds(id, fault = "get_client")
       ELSE LET client == get_client(clients, id)
                kw == [f \in EditableFields |->
                         IF f \in OptFields
                         THEN OrNone(IF f \in DOMAIN typed THEN typed[f]
                                     ELSE OrEmpty(client[f]))
                         ELSE IF f \in DOMAIN typed THEN typed[f]
                         ELSE client[f]]
            IN  /\ IF fault = "update_client"
                   THEN StoreFails("update_client", [id |-> id, kw |-> kw])
                   ELSE UpdateClient(id, kw)
                /\ UNCHANGED pc
    /\ UNCHANGED current_user

(* delete_client() of the menu: the lookup, the confirmation, then    *)
(* delete_client inside try / except Exception.                       *)
RemoveClient(id, confirm, fault) ==
    /\ pc = "clients"
    /\ fault \in {"none", "get_client", "delete_client"}
    /\ IF fault = "get_client" \/ ~Found(clients, id)
       THEN /\ fault # "delete_client"
            /\ confirm
            /\ LookupEnds(id, fault = "get_client")
       ELSE /\ IF ~confirm
               THEN /\ fault = "none"
                    /\ last' = Call("get_client", [id |-> id], "none",
                                    get_client(clients, id))
                    /\ UNCHANGED <<clients, clients_seq, reports,
                                   reports_seq, report_data, users,
                                   users_seq, now, tz, issued>>
               ELSE IF fault = "delete_client"
               THEN StoreFails("delete_client", [id |-> id])
               ELSE DeleteClient(id)
            /\ UNCHANGED pc
    /\ UNCHANGED current_user

(* Choice 0 of the main menu or of the dashboard (exit_application:   *)
(* sys.exit), or Ctrl+C at a prompt: main returns.                    *)
MenuExit ==
    /\ pc \in {"menu", "dashboard", "clients"}
    /\ pc' = "exit"
    /\ UNCHANGED <<clients, clients_seq, reports, reports_seq, report_data,
                   users, users_seq, now, tz, issued, last, current_user>>

(* The program is started again on the same database file:             *)
(* initialize_database creates the tables only if they do not exist.   *)
MainStart ==
    /\ pc = "exit"
    /\ last' = Call("initialize_database", <<>>, "none", NULL)
    /\ pc' = "main"
    /\ current_user' = {}
    /\ UNCHANGED <<clients, clients_seq, reports, reports_seq, report_data,
                   users, users_seq, now, tz, issued>>

(* Keyword arguments callers pass to update_client. *)
UpdateInputs ==
    {<<>>, [name |-> "Bo"], [city |-> NULL], [email |-> NULL]}
    \cup {[email |-> e, phone |-> "555"] : e \in Emails}
    \cup {[id |-> i] : i \in ClientIds}

(* The client operations of the record store, as time passes. *)
Next ==
    \/ \E inp \in ClientInputs : CreateClient(inp)
    \/ \E id \in ClientIds, kw \in UpdateInputs : UpdateClient(id, kw)
    \/ \E id \in ClientIds : DeleteClient(id)
    \/ Tick

Spec == Init /\ [][Next /\ UNCHANGED <<pc, current_user, files>>]_vars

(* Updates that can succeed, on clients created with optional fields, *)
(* of which client 1 may own a report.                                 *)
FieldUpdates == UpdateInputs \ {<<>>, [email |-> NULL]}
FilledInputs == {inp \in ClientInputs : inp.phone # NULL}

NextUpdate ==
    \/ \E inp \in FilledInputs : CreateClient(inp)
    \/ \E id \in ClientIds, kw \in FieldUpdates : UpdateClient(id, kw)
    \/ CreateReport(1, "Informe", NULL, "general")

SpecUpdate == Init /\ [][NextUpdate /\ UNCHANGED <<pc, current_user, files>>]_vars

(* Creation and deletion of clients, and the reports that name them. *)
KeyInputs == {inp \in ClientInputs : \A f \in OptFields : inp[f] = NULL}

NextReports ==
    \/ \E inp \in KeyInputs : CreateClient(inp)
    \/ \E id \in ClientIds : DeleteClient(id)
    \/ \E c \in ClientIds : CreateReport(c, "Informe", NULL, "general")
    \/ Tick

SpecReports == Init /\ [][NextReports /\ UNCHANGED <<pc, current_user, files>>]_vars

(* Both keyed tables together, on a machine whose local zone is UTC:  *)
(* every client and user operation, drawn from the inputs that bear   *)
(* on the UNIQUE columns.                                             *)
KeyUpdates == {[email |-> e] : e \in Emails}

InitUTC == Init /\ tz = 0

NextAll ==
    \/ \E inp \in KeyInputs : CreateClient(inp)
    \/ \E id \in ClientIds, kw \in KeyUpdates : UpdateClient(id, kw)
    \/ \E id \in ClientIds : DeleteClient(id)
    \/ \E u \in Usernames : CreateUser(u, Pw1, FALSE, "s1")
    \/ \E i \in UserIds, o \in Passwords : ChangePassword(i, o, Pw2, "s1")

SpecAll == InitUTC /\ [][NextAll /\ UNCHANGED <<pc, current_user, files>>]_vars

(* The client table as it is listed: clients come and go, are edited,   *)
(* and the clock advances between the calls.                            *)
ListUpdates == {[name |-> "Bo"]}

NextList ==
    \/ \E inp \in KeyInputs : CreateClient(inp)
    \/ \E id \in ClientIds, kw \in ListUpdates : UpdateClient(id, kw)
    \/ \E id \in ClientIds : DeleteClient(id)
    \/ GetAllClients
    \/ Tick

SpecList == Init /\ [][NextList /\ UNCHANGED <<pc, current_user, files>>]_vars

(* Reports of either type, made with and without naming the type, for *)
(* clients that exist, that were deleted and that never existed.       *)
ReportCalls ==
    {[title |-> "Informe"],
     [title |-> "Ventas", description |-> "Q3", report_type |-> "ventas"]}

NextReportStats ==
    \/ \E inp \in KeyInputs : CreateClient(inp)
    \/ \E id \in ClientIds : DeleteClient(id)
    \/ \E c \in ClientIds, given \in ReportCalls :
          CreateReportCall(c, given, MaxStatReports)

SpecReportStats == InitUTC /\ [][NextReportStats /\ UNCHANGED <<pc, current_user, files>>]_vars

(* Clients registered one after the other, the k-th under its own      *)
(* address: in a city of its own, in Lima, or (the first one) with no  *)
(* city and no country; the first client may be deleted again.         *)
StatProfiles(k) ==
    {[city |-> CityName(k), country |-> "CO"],
     [city |-> "Lima", country |-> "PE"]}
    \cup (IF k = 1 THEN {[city |-> NULL, country |-> NULL]} ELSE {})

StatInputs(k) ==
    {[f \in EditableFields |->
        IF f = "name" THEN "Ana"
        ELSE IF f = "email" THEN "c" \o ToString(k) \o "@x.com"
        ELSE IF f \in DOMAIN pr THEN pr[f] ELSE NULL] :
     pr \in StatProfiles(k)}

NextClientStats ==
    \/ \E inp \in StatInputs(NextRowId(clients, clients_seq)) :
          CreateClientWithin(inp, MaxStatClients)
    \/ DeleteClient(1)

SpecClientStats == InitUTC /\ [][NextClientStats /\ UNCHANGED <<pc, current_user, files>>]_vars

(* Hashing and verifying, on short passwords and on passwords longer *)
(* than a bcrypt key.                                                 *)
NextHash ==
    \/ \E p \in Passwords \cup LongPasswords : HashPassword(p)
    \/ \E p \in Passwords \cup LongPasswords : VerifyPassword(p)

SpecHash == Init /\ [][NextHash /\ UNCHANGED <<pc, current_user, files>>]_vars

(* The credential manager: users are made, log in and change their  *)
(* password, with short passwords and with passwords longer than a   *)
(* bcrypt key.                                                       *)
UserPasswords == {Pw1, Long1, Long2}

NextUsers ==
    \/ \E u \in Usernames, p \in {Pw1, Long1}, a \in BOOLEAN,
          salt \in GenSalt : CreateUser(u, p, a, salt)
    \/ \E u \in Usernames, p \in UserPasswords : Authenticate(u, p)
    \/ \E i \in UserIds, o \in UserPasswords, n \in UserPasswords,
          salt \in GenSalt : ChangePassword(i, o, n, salt)
    \/ UserExists

SpecUsers == InitUTC /\ [][NextUsers /\ UNCHANGED <<pc, current_user, files>>]_vars

(* Runs of main(), one after the other, on one database file. *)
NextMain ==
    \/ MainCheck
    \/ \E u \in Usernames, p \in {Pw1, Long1} : MainBootstrap(u, p)
    \/ \E u \in Usernames : MainBootstrapRaises(u, Pw1)
    \/ \E u \in Usernames, a \in BOOLEAN :
          MenuRegister(u, Pw2, Pw2, a, FALSE)
    \/ MenuExit
    \/ MainStart
    \/ Tick

SpecMain == Init /\ [][NextMain /\ UNCHANGED files]_vars

(* Reports are listed and counted while clients and reports are made *)
(* and clients are deleted.                                            *)
NextReportLists ==
    \/ \E inp \in KeyInputs : CreateClient(inp)
    \/ \E id \in ClientIds : DeleteClient(id)
    \/ \E c \in ClientIds :
          CreateReportCall(c, [title |-> "Informe"], MaxStatReports)
    \/ GetAllReports
    \/ \E c \in ClientIds : GetReportsByClient(c)
    \/ GetReportStats

SpecReportLists == InitUTC /\ [][NextReportLists /\ UNCHANGED <<pc, current_user, files>>]_vars

(* Clients are made and deleted, nothing else. *)
NextIds ==
    \/ \E inp \in ClientInputs : CreateClient(inp)
    \/ \E id \in ClientIds : DeleteClient(id)
    \/ Tick

SpecIds == Init /\ [][NextIds /\ UNCHANGED <<pc, current_user, files>>]_vars

(* Client lists are exported while clients, with and without their *)
(* optional fields, are made and deleted.                            *)
NextExport ==
    \/ (/\ \/ \E inp \in ClientInputs : CreateClient(inp)
           \/ \E id \in ClientIds : DeleteClient(id)
        /\ UNCHANGED files)
    \/ GenerateClientsList("excel")
    \/ GenerateClientsList("csv")

SpecExport == InitUTC /\ [][NextExport /\ UNCHANGED <<pc, current_user>>]_vars

(* What the user types at the prompts of add_client: a name, an email *)
(* and, for an optional field, a text or nothing.                      *)
TypedClients ==
    {[f \in EditableFields |->
        IF f = "name" THEN "Ana"
        ELSE IF f = "email" THEN e
        ELSE IF f = "city" THEN "Lima" ELSE ""] :
     e \in Emails}

(* The fields the user retypes at the prompts of edit_client. *)
TypedEdits == {[name |-> "Bo"], [email |-> "bo@x.com", city |-> ""]}

(* The interactive shell on the users' side: runs of main() with the  *)
(* main menu and the dashboard, every store call of a handler         *)
(* succeeding or failing in the driver.                               *)
NextShell ==
    \/ MainCheck
    \/ MainBootstrap("admin", Pw1)
    \/ \E u \in Usernames, c \in {Pw1, Pw2}, f \in BOOLEAN :
          MenuRegister(u, Pw1, c, FALSE, f)
    \/ \E u \in Usernames, p \in {Pw1, Pw2}, fault \in Faults :
          Login(u, p, fault)
    \/ Logout
    \/ \E f \in BOOLEAN : DashboardChoice(f)
    \/ OpenClients
    \/ \E f \in BOOLEAN : CloseClients(f)
    \/ MenuExit
    \/ MainStart

SpecShell == InitUTC /\ [][NextShell /\ UNCHANGED files]_vars

(* The interactive shell on the clients' side: the administrator of   *)
(* the first run logs in and works in the client menu, every store    *)
(* call of a handler succeeding or failing in the driver.             *)
NextClientMenu ==
    \/ MainCheck
    \/ MainBootstrap("admin", Pw1)
    \/ \E fault \in Faults : Login("admin", Pw1, fault)
    \/ OpenClients
    \/ \E f \in BOOLEAN : CloseClients(f)
    \/ \E f \in BOOLEAN : ListClients(f)
    \/ \E t \in TypedClients, f \in BOOLEAN : AddClient(t, f)
    \/ \E id \in ClientIds, t \in TypedEdits, fault \in Faults :
          EditClient(id, t, fault)
    \/ \E id \in ClientIds, c \in BOOLEAN, fault \in Faults :
          RemoveClient(id, c, fault)
    \/ MenuExit
    \/ MainStart

SpecClientMenu == InitUTC /\ [][NextClientMenu /\ UNCHANGED files]_vars

(* ============================== claims ================================ *)
(* C1: create_client with an email not yet present returns an id, and    *)
(* get_client(id) then returns a row equal to the input on every         *)
(* supplied field, NULL on every unsupplied optional field, and with     *)
(* created_at equal to updated_at.                                       *)
C1_CreateThenGet ==
    [][LET inp == last'.args
       IN
        (/\ last'.op = "create_client"
         /\ CreateClient(inp)
         /\ ~\E r \in clients : r.email = inp.email)
        => /\ last'.raised = "none"
           /\ Found(clients', last'.ret)
           /\ LET r == get_client(clients', last'.ret)
              IN  /\ \A f \in EditableFields : r[f] = inp[f]
                  /\ \A f \in OptFields : inp[f] = NULL => r[f] = NULL
                  /\ r.created_at = r.updated_at]_vars

C1_Witness ==
    /\ last.op = "create_client"
    /\ last.raised = "none"
    /\ last.args.phone # NULL
    /\ last.args.country = NULL
    /\ Found(clients, last.ret)

(* C2: create_client with an email that an existing client holds raises *)
(* the constraint violation, returns no id, leaves the clients table    *)
(* (and its id counter) as it was, and every earlier client is still    *)
(* returned unchanged by get_client.                                    *)
C2_DuplicateEmailRejected ==
    [][LET inp == last'.args
       IN
        (/\ last'.op = "create_client"
         /\ CreateClient(inp)
         /\ \E r \in clients : r.email = inp.email)
        => /\ last'.raised = "IntegrityError"
           /\ clients' = clients
           /\ clients_seq' = clients_seq
           /\ \A r \in clients : get_client(clients', r.id) = r]_vars

C2_Witness ==
    /\ last.op = "create_client"
    /\ last.raised = "IntegrityError"
    /\ \E r \in clients : r.email = last.args.email

(* C3: in every reachable state no two client rows share an email and *)
(* no two user rows share a username.                                 *)
C3_UniqueKeys ==
    /\ \A a \in clients, b \in clients : a.email = b.email => a = b
    /\ \A a \in users, b \in users : a.username = b.username => a = b

C3_Witness ==
    /\ Cardinality(clients) = 2
    /\ Cardinality(users) = 2
    /\ last.op = "update_client"
    /\ last.raised = "IntegrityError"

(* C4: a successful update_client changes, in the target row, only the  *)
(* named columns and updated_at; every other column of that row, every  *)
(* other client row and every report row keep their values.             *)
C4_UpdateFrame ==
    [][LET id == last'.args.id
           kw == last'.args.kw
       IN
        (/\ last'.op = "update_client"
         /\ UpdateClient(id, kw)
         /\ last'.ret)
        => LET newid == IF "id" \in DOMAIN kw THEN kw.id ELSE id
               old == get_client(clients, id)
               new == get_client(clients', newid)
           IN  /\ Found(clients, id)
               /\ Found(clients', newid)
               /\ \A c \in Columns \ (DOMAIN kw \cup {"updated_at"}) :
                     new[c] = old[c]
               /\ clients' \ {new} = clients \ {old}
               /\ reports' = reports
               /\ report_data' = report_data]_vars

C4_Witness ==
    /\ last.op = "update_client"
    /\ last.ret
    /\ DOMAIN last.args.kw = {"name"}
    /\ Cardinality(clients) = 2
    /\ reports # {}
    /\ \E r \in clients : r.id = last.args.id /\ r.phone # NULL

(* C5: every successful update_client advances updated_at: the stored   *)
(* value after the call is later than the one before it, and it is not  *)
(* earlier than the row's created_at.                                   *)
C5_UpdatedAtAdvances ==
    [][LET id == last'.args.id
           kw == last'.args.kw
       IN
        (/\ last'.op = "update_client"
         /\ UpdateClient(id, kw)
         /\ last'.ret
         /\ "id" \notin DOMAIN kw)
        => LET old == get_client(clients, id)
               new == get_client(clients', id)
           IN  /\ Later(new.updated_at, old.updated_at)
               /\ ~Later(new.created_at, new.updated_at)]_vars

(* C6: update_client returns False and writes nothing when the id     *)
(* matches no client row, and when no field is named.                 *)
C6_UpdateNoOp ==
    [][LET id == last'.args.id
           kw == last'.args.kw
       IN
        (/\ last'.op = "update_client"
         /\ UpdateClient(id, kw)
         /\ (~Found(clients, id) \/ DOMAIN kw = {}))
        => /\ last'.raised = "none"
           /\ ~last'.ret
           /\ UNCHANGED <<clients, clients_seq, reports, reports_seq,
                          report_data, users, users_seq>>]_vars

C6_Witness ==
    /\ last.op = "update_client"
    /\ last.raised = "none"
    /\ ~last.ret
    /\ DOMAIN last.args.kw = {}
    /\ \E r \in clients : r.id = last.args.id /\ r.updated_at = r.created_at

(* C7: update_client naming an email that another client holds raises  *)
(* the constraint violation and leaves the target row as it was: no    *)
(* other named field is applied, updated_at is not changed.            *)
C7_UpdateEmailCollision ==
    [][LET id == last'.args.id
           kw == last'.args.kw
       IN
        (/\ last'.op = "update_client"
         /\ UpdateClient(id, kw)
         /\ Found(clients, id)
         /\ "email" \in DOMAIN kw
         /\ \E o \in clients : o.id # id /\ o.email = kw.email)
        => /\ last'.raised = "IntegrityError"
           /\ get_client(clients', id) = get_client(clients, id)
           /\ clients' = clients]_vars

C7_Witness ==
    /\ last.op = "update_client"
    /\ last.raised = "IntegrityError"
    /\ DOMAIN last.args.kw = {"email", "phone"}
    /\ \E r \in clients, o \in clients :
          /\ r.id = last.args.id
          /\ o.id # r.id
          /\ o.email = last.args.kw.email
          /\ r.phone # last.args.kw.phone

(* C8: delete_client(id) returns True exactly when a row with that id  *)
(* existed; afterwards get_client(id) is absent, the other rows are    *)
(* unchanged, and a second delete_client(id) returns False and changes *)
(* nothing.                                                            *)
C8_DeleteClient ==
    [][LET id == last'.args.id
       IN
        (/\ last'.op = "delete_client"
         /\ DeleteClient(id))
        => /\ last'.ret = Found(clients, id)
           /\ ~Found(clients', id)
           /\ clients' = {r \in clients : r.id # id}
           /\ (last.op = "delete_client" /\ last.args.id = id)
                 => (~last'.ret /\ clients' = clients)]_vars

C8_Witness ==
    /\ last.op = "delete_client"
    /\ ~last.ret
    /\ last.args.id <= clients_seq
    /\ ~Found(clients, last.args.id)
    /\ clients # {}

(* C9: delete_client on a client that owns reports returns True and   *)
(* leaves reports and report_data as they were; a report whose        *)
(* client_id matches no client row is then in the store.              *)
C9_DeleteKeepsReports ==
    [][LET id == last'.args.id
       IN
        (/\ last'.op = "delete_client"
         /\ DeleteClient(id)
         /\ Found(clients, id)
         /\ \E r \in reports : r.client_id = id)
        => /\ last'.raised = "none"
           /\ last'.ret
           /\ reports' = reports
           /\ report_data' = report_data
           /\ \E r \in reports' : ~Found(clients', r.client_id)]_vars

C9_Witness ==
    /\ last.op = "delete_client"
    /\ last.ret
    /\ \E r \in reports :
          r.client_id = last.args.id /\ ~Found(clients, r.client_id)

(* C10: no store operation changes the id of an existing client row: a *)
(* row leaves the table only through delete_client of its id, and an   *)
(* id enters the table only as the id create_client returned.          *)
C10_IdStable ==
    [][/\ \A r \in clients :
            \/ Found(clients', r.id)
            \/ last'.op = "delete_client" /\ last'.args.id = r.id
       /\ \A r \in clients' :
            \/ Found(clients, r.id)
            \/ last'.op = "create_client" /\ last'.ret = r.id]_vars

(* C11: get_all_clients returns exactly the client rows in the store,  *)
(* each once, and for any two adjacent rows of the result the earlier  *)
(* one's created_at is not less than the later one's.                  *)
C11_ListClients ==
    [][(/\ last'.op = "get_all_clients"
        /\ GetAllClients)
       => LET rows == last'.ret
          IN  /\ {rows[i] : i \in 1..Len(rows)} = clients
              /\ Len(rows) = Cardinality(clients)
              /\ \A i \in 1..(Len(rows) - 1) :
                    ~Later(rows[i + 1].created_at, rows[i].created_at)]_vars

C11_Witness ==
    /\ last.op = "get_all_clients"
    /\ Len(last.ret) = 2
    /\ Later(last.ret[1].created_at, last.ret[2].created_at)
    /\ last.ret[1].name # last.ret[2].name

(* C12: create_report looks no client up: for any client_id, one that  *)
(* matches no client included, it inserts one report row and returns   *)
(* its id; the row has status "pending" and, when the call names no    *)
(* type, report_type "general".                                        *)
C12_CreateReportUnchecked ==
    [][\A c \in ClientIds, given \in ReportCalls :
        (/\ last'.op = "create_report"
         /\ CreateReportCall(c, given, MaxStatReports))
        => /\ last'.raised = "none"
           /\ ~\E r \in reports : r.id = last'.ret
           /\ \E r \in reports' :
                 /\ reports' = reports \cup {r}
                 /\ r.id = last'.ret
                 /\ r.client_id = c
                 /\ r.title = given.title
                 /\ r.status = "pending"
                 /\ "report_type" \notin DOMAIN given
                       => r.report_type = "general"
                 /\ "report_type" \in DOMAIN given
                       => r.report_type = given.report_type]_vars

C12_Witness ==
    /\ last.op = "create_report"
    /\ last.raised = "none"
    /\ clients # {}
    /\ ~Found(clients, last.args.client_id)
    /\ last.args.client_id > clients_seq
    /\ \E r \in reports :
          /\ r.id = last.ret
          /\ r.status = "pending"
          /\ r.report_type = "general"

(* Sum of the counts of a mapping. *)
RECURSIVE SumOfCounts(_)
SumOfCounts(f) ==
    IF DOMAIN f = {} THEN 0
    ELSE LET k == CHOOSE k \in DOMAIN f : TRUE
         IN  f[k] + SumOfCounts([j \in DOMAIN f \ {k} |-> f[j]])

(* C14: in every reachable state get_report_stats returns as           *)
(* total_reports the number of report rows, whether or not their       *)
(* client exists; reports_by_status and reports_by_type map every      *)
(* value that occurs, and no other, to the number of rows holding it,  *)
(* so the counts of each mapping sum to total_reports.                 *)
C14_ReportStats ==
    LET st == get_report_stats(reports, clients)
    IN  /\ st.total_reports = Cardinality(reports)
        /\ DOMAIN st.reports_by_status = {r.status : r \in reports}
        /\ DOMAIN st.reports_by_type = {r.report_type : r \in reports}
        /\ \A v \in DOMAIN st.reports_by_status :
              st.reports_by_status[v] =
                  Cardinality({r \in reports : r.status = v})
        /\ \A v \in DOMAIN st.reports_by_type :
              st.reports_by_type[v] =
                  Cardinality({r \in reports : r.report_type = v})
        /\ SumOfCounts(st.reports_by_status) = st.total_reports
        /\ SumOfCounts(st.reports_by_type) = st.total_reports

C14_Witness ==
    /\ Cardinality(reports) = 3
    /\ Cardinality({r.report_type : r \in reports}) = 2
    /\ \E r \in reports : ~Found(clients, r.client_id)
    /\ \E r \in reports : Found(clients, r.client_id)
    /\ get_report_stats(reports, clients).reports_by_type["general"] = 2

(* C13: in every reachable state get_client_stats returns as           *)
(* total_clients the number of client rows; clients_by_country maps    *)
(* each non-null country, and nothing else, to the number of clients   *)
(* with that country; clients_by_city has at most 10 entries, none for *)
(* null, no city twice, each with its exact count, no city left out    *)
(* has more clients than a listed one, none is left out while fewer    *)
(* than 10 are listed, and the counts descend along the list.          *)
C13_ClientStats ==
    \A tie \in TieBreaks :
        LET st == get_client_stats(clients, tie)
            top == st.clients_by_city
            listed == {top[i][1] : i \in 1..Len(top)}
            CountOf(col, v) == Cardinality({r \in clients : r[col] = v})
        IN  /\ st.total_clients = Cardinality(clients)
            /\ DOMAIN st.clients_by_country =
                   {r.country : r \in clients} \ {NULL}
            /\ \A v \in DOMAIN st.clients_by_country :
                   st.clients_by_country[v] = CountOf("country", v)
            /\ Len(top) <= 10
            /\ NULL \notin listed
            /\ Cardinality(listed) = Len(top)
            /\ \A i \in 1..Len(top) :
                   top[i][2] > 0 /\ top[i][2] = CountOf("city", top[i][1])
            /\ \A i \in 1..(Len(top) - 1) : top[i][2] >= top[i + 1][2]
            /\ \A c \in {r.city : r \in clients} \ ({NULL} \cup listed) :
                   /\ Len(top) = 10
                   /\ \A i \in 1..Len(top) : CountOf("city", c) <= top[i][2]

C13_Witness ==
    /\ Cardinality({r.city : r \in clients} \ {NULL}) > 10
    /\ Cardinality({r \in clients : r.city = "Lima"}) = 2
    /\ Len(get_client_stats(clients, 1).clients_by_city) = 10
    /\ get_client_stats(clients, 1).clients_by_city[1] = <<"Lima", 2>>
    /\ get_client_stats(clients, 1).clients_by_city
           # get_client_stats(clients, -1).clients_by_city

(* C15: hash_password called twice on one password yields two          *)
(* different hashes; verify_password(p, h) is true for every hash h     *)
(* made from p and false for every hash made from another password.     *)
C15_HashVerify ==
    [][/\ (/\ last.op = "hash_password"
           /\ last'.op = "hash_password"
           /\ last'.args.password = last.args.password)
          => last'.ret # last.ret
       /\ \A p \in Passwords \cup LongPasswords :
             (last'.op = "verify_password" /\ VerifyPassword(p))
             => (last'.ret <=> p = last'.args.made_from)]_vars

(* C16: create_user returns True and adds exactly one user row, with   *)
(* the username, the admin flag and a hash of the password, when the   *)
(* username is unused; when a user has the username it returns False   *)
(* without raising and leaves the users table as it was.               *)
C16_CreateUser ==
    [][LET a == last'.args
       IN
        (/\ last'.op = "create_user"
         /\ \E salt \in Salts :
               CreateUser(a.username, a.password, a.is_admin, salt))
        => /\ last'.raised = "none"
           /\ IF \E u \in users : u.username = a.username
              THEN /\ last'.ret = FALSE
                   /\ users' = users
                   /\ users_seq' = users_seq
              ELSE /\ last'.ret = TRUE
                   /\ \E u \in users' :
                         /\ u \notin users
                         /\ users' = users \cup {u}
                         /\ u.username = a.username
                         /\ Bool(u.is_admin) = a.is_admin
                         /\ verify_password(a.password, u.password_hash)
                         /\ \A o \in users : o.id # u.id]_vars

C16_Witness ==
    /\ last.op = "create_user"
    /\ last.ret = FALSE
    /\ \E u \in users :
          /\ u.username = last.args.username
          /\ Bool(u.is_admin) # last.args.is_admin
          /\ ~verify_password(last.args.password, u.password_hash)

(* C17: authenticate_user returns NULL when no user has the username   *)
(* or the password does not verify against the stored hash; otherwise  *)
(* it returns exactly id, username and is_admin of that user, and no   *)
(* password hash; it never modifies the store.                         *)
C17_Authenticate ==
    [][LET a == last'.args
       IN
        (/\ last'.op = "authenticate_user"
         /\ Authenticate(a.username, a.password))
        => /\ UNCHANGED <<clients, clients_seq, reports, reports_seq,
                          report_data, users, users_seq>>
           /\ IF \E u \in users :
                    /\ u.username = a.username
                    /\ verify_password(a.password, u.password_hash)
              THEN \E u \in users :
                      /\ u.username = a.username
                      /\ last'.ret = [id |-> u.id, username |-> u.username,
                                      is_admin |-> (u.is_admin = 1)]
              ELSE last'.ret = NULL]_vars

C17_Witness ==
    /\ last.op = "authenticate_user"
    /\ Cardinality(users) = 2
    /\ Accepted(users, last.args.username, last.args.password) # {}
    /\ last.ret.is_admin
    /\ last.ret.id = 2
    /\ \E u \in users : ~Bool(u.is_admin)

(* C18: change_password returns True exactly when the user exists and  *)
(* the old password verifies against the stored hash; it then replaces *)
(* that user's hash, after which authenticate_user succeeds with the   *)
(* new password and, when the new password differs from the old one,   *)
(* fails with the old one.  Otherwise the users table is unchanged.    *)
(* In both cases nothing but that user's password hash changes.        *)
C18_ChangePassword ==
    [][LET a == last'.args
           ok == \E u \in users :
                    /\ u.id = a.user_id
                    /\ verify_password(a.old_password, u.password_hash)
       IN
        (/\ last'.op = "change_password"
         /\ \E salt \in Salts :
               ChangePassword(a.user_id, a.old_password, a.new_password,
                              salt))
        => /\ last'.ret = ok
           /\ ~ok => users' = users
           /\ UNCHANGED <<clients, clients_seq, reports, reports_seq,
                          report_data, users_seq>>
           /\ \A u \in users :
                 \E v \in users' :
                    /\ v.id = u.id
                    /\ v.username = u.username
                    /\ v.is_admin = u.is_admin
                    /\ v.created_at = u.created_at
                    /\ u.id # a.user_id => v = u
           /\ Cardinality(users') = Cardinality(users)
           /\ ok => \A u \in users :
                 u.id = a.user_id =>
                    /\ Accepted(users', u.username, a.new_password) # {}
                    /\ a.new_password # a.old_password
                          => Accepted(users', u.username, a.old_password)
                                 = {}]_vars

(* C19: user_exists is true exactly when the users table has a row,    *)
(* no step removes a user row, and once user_exists has returned True  *)
(* the table has a row in every later state.                           *)
C19_UserExists ==
    [][/\ (last'.op = "user_exists" /\ UserExists)
          => (last'.ret <=> users # {})
       /\ Cardinality(users') >= Cardinality(users)
       /\ users # {} => users' # {}
       /\ user_exists(users) => user_exists(users')]_vars

C19_Witness ==
    /\ last.op = "user_exists"
    /\ last.ret
    /\ Cardinality(users) = 1
    /\ users_seq = 1

(* C20: in every run of main the menu is running only while the users  *)
(* table has a row.  With no user, main goes to the bootstrap, which    *)
(* creates a user with the admin flag set before the menu starts; with  *)
(* a user, main starts the menu at once and creates nothing; when the   *)
(* bootstrap creation raises, the menu is not entered.                  *)
C20_MenuNeedsUser ==
    [][/\ pc' = "menu" => users' # {}
       /\ (pc = "main" /\ pc' # "main")
             => /\ users' = users
                /\ pc' = IF users = {} THEN "bootstrap" ELSE "menu"
       /\ (pc = "bootstrap" /\ pc' = "menu")
             => /\ users = {}
                /\ \E u \in users' : users' = {u} /\ u.is_admin = 1
       /\ (pc = "bootstrap" /\ last'.raised # "none")
             => pc' = "exit" /\ users' = {}
       /\ pc' = "menu" => pc \in {"main", "bootstrap", "menu"}]_vars

C20_Witness ==
    /\ pc = "menu"
    /\ last.op = "user_exists"
    /\ last.ret
    /\ Cardinality(users) = 2
    /\ \E u \in users : u.is_admin = 0

(* C21: a store call that raises in a menu action (login, the          *)
(* dashboard's statistics, listing, searching, adding, editing or       *)
(* deleting a client) is reported and the interactive loop goes on:     *)
(* the step that raises leaves the shell at one of its menus, main      *)
(* does not return.                                                     *)
C21_ErrorsKeepLoop ==
    [][(/\ pc \in {"menu", "dashboard", "clients"}
        /\ last' # last
        /\ last'.raised = "OperationalError")
       => pc' \in {"menu", "dashboard", "clients"}]_vars

(* C22: in the Excel and CSV client lists the first row holds the     *)
(* relabelled headers over the columns id, name, email, phone,         *)
(* company, address, city, country, created_at in that order, there    *)
(* is one row per client, and the cell of an optional field that is    *)
(* absent is the literal "N/A", never empty.                           *)
C22_ExportCells ==
    [][last'.op \in {"generate_clients_list_excel", "generate_clients_list_csv"}
       => LET list == last'.args
              sheet == files'[last'.ret]
          IN  /\ Len(sheet) = Len(list) + 1
              /\ sheet[1] = Headers
              /\ \A i \in 1..Len(list) :
                    /\ sheet[i + 1][1] = list[i].id
                    /\ sheet[i + 1][2] = list[i].name
                    /\ sheet[i + 1][3] = list[i].email
                    /\ sheet[i + 1][9] = list[i].created_at
                    /\ \A k \in 4..8 :
                          sheet[i + 1][k] =
                             IF list[i][columns_order[k]] = NULL THEN "N/A"
                             ELSE list[i][columns_order[k]]]_vars

(* C23: logout resets the shell's user.  The step that leaves the     *)
(* dashboard for the main menu sets current_user to None, and a login  *)
(* that follows, by whichever user, starts from None and sets          *)
(* current_user to the id, name and admin flag of the user who logged  *)
(* in, and to nothing of an earlier user.                              *)
C23_LogoutResets ==
    [][/\ (pc = "dashboard" /\ pc' = "menu") => current_user' = {}
       /\ \A u \in Usernames, p \in Passwords, f \in Faults :
             (Login(u, p, f) /\ pc' = "dashboard")
             => /\ current_user = {}
                /\ \E row \in users :
                      /\ row.username = u
                      /\ current_user' = {[id |-> row.id, username |-> u,
                                           is_admin |-> (row.is_admin = 1)]}]_vars

(* The dashboard was shown, the user has logged out, and another user *)
(* exists to log in next.                                              *)
C23_Witness ==
    /\ pc = "menu"
    /\ current_user = {}
    /\ last.op = "get_report_stats"
    /\ Cardinality(users) = 2

(* C24: in the registration menu, when the password and its            *)
(* confirmation differ, create_user is not called, the users table is  *)
(* unchanged and the shell is back at the main menu; when they are     *)
(* equal, the outcome is that of create_user: the user is added with   *)
(* the typed name, password and admin flag and True is returned, or,   *)
(* for a name that is taken, the table is unchanged and False is       *)
(* returned.                                                           *)
C24_RegisterConfirms ==
    [][\A u \in Usernames, p \in Passwords, c \in Passwords, a \in BOOLEAN :
          MenuRegister(u, p, c, a, FALSE)
          => /\ pc' = "menu"
             /\ IF p # c
                THEN /\ last'.op # "create_user"
                     /\ users' = users
                     /\ users_seq' = users_seq
                ELSE /\ last'.op = "create_user"
                     /\ last'.args = [username |-> u, password |-> p,
                                      is_admin |-> a]
                     /\ IF \E row \in users : row.username = u
                        THEN last'.ret = FALSE /\ users' = users
                        ELSE /\ last'.ret = TRUE
                             /\ \E row \in users' \ users :
                                   /\ users' = users \cup {row}
                                   /\ row.username = u
                                   /\ row.is_admin = (IF a THEN 1 ELSE 0)
                                   /\ verify_password(p, row.password_hash)]_vars

(* A registration whose confirmation differed has just been turned   *)
(* down, for a name that was free.                                    *)
C24_Witness ==
    /\ pc = "menu"
    /\ last.op = "register_menu"
    /\ users # {}
    /\ \A row \in users : row.username # last.args.username

(* The reports of a listing, without the client_name the join adds. *)
ListedReports(list) ==
    {[c \in DOMAIN list[i] \ {"client_name"} |-> list[i][c]] :
        i \in 1..Len(list)}

(* C25: get_all_reports and get_reports_by_client return exactly the   *)
(* reports whose client_id is the id of an existing client (of the     *)
(* asked client, for the second), each once and with that client's     *)
(* name; reports of a deleted client are in neither, while             *)
(* get_report_stats still counts them in total_reports: the length of  *)
(* get_all_reports is at most total_reports, and smaller exactly       *)
(* when some report has no client.                                     *)
C25_ListingsJoin ==
    [][LET live == {r \in reports : \E c \in clients : c.id = r.client_id}
           total == get_report_stats(reports, clients).total_reports
           list == last'.ret
           named == \A i \in 1..Len(list) :
                       \E c \in clients : /\ c.id = list[i].client_id
                                          /\ c.name = list[i].client_name
       IN  /\ (last'.op = "get_all_reports" /\ GetAllReports)
              => /\ ListedReports(list) = live
                 /\ Len(list) = Cardinality(live)
                 /\ named
                 /\ Len(list) <= total
                 /\ Len(list) < total <=> live # reports
           /\ (last'.op = "get_reports_by_client"
               /\ GetReportsByClient(last'.args.client_id))
              => /\ ListedReports(list) =
                       {r \in live : r.client_id = last'.args.client_id}
                 /\ Len(list) = Cardinality(ListedReports(list))
                 /\ named
           /\ (last'.op = "get_report_stats" /\ GetReportStats)
              => last'.ret.total_reports = Cardinality(reports)]_vars

(* All reports were listed when one client's reports had lost their   *)
(* client and another client's report was still listed.               *)
C25_Witness ==
    /\ last.op = "get_all_reports"
    /\ Len(last.ret) >= 1
    /\ Len(last.ret) < Cardinality(reports)
    /\ \E r \in reports : \A c \in clients : c.id # r.client_id

(* C26: client ids are never reused.  Over any sequence of             *)
(* create_client and delete_client calls, a create_client that         *)
(* succeeds returns an id greater than every id a create_client        *)
(* returned before, also when the client with the greatest id has      *)
(* been deleted; a create_client that fails returns no id, and         *)
(* delete_client hands out none.                                       *)
C26_IdsNeverReused ==
    [][/\ (last'.op = "create_client" /\ CreateClient(last'.args))
          => IF last'.raised = "none"
             THEN /\ \A i \in issued : last'.ret > i
                  /\ \A c \in clients : last'.ret > c.id
                  /\ issued' = issued \cup {last'.ret}
                  /\ \E c \in clients' \ clients : c.id = last'.ret
             ELSE issued' = issued /\ clients' = clients
       /\ last'.op = "delete_client" => issued' = issued]_vars

(* The only client in the table was made after the client with the   *)
(* greatest id so far had been deleted.                               *)
C26_Witness ==
    /\ last.op = "create_client"
    /\ last.raised = "none"
    /\ last.ret = 2
    /\ issued = {1, 2}
    /\ \A c \in clients : c.id = 2

(* C27: whenever the dashboard or the client menu under it is active,  *)
(* current_user holds the summary (id, name, admin flag) of a user in  *)
(* the store, the one authenticate_user returned for the name and      *)
(* password typed at the login that opened the dashboard; whenever     *)
(* the main menu is displayed current_user is None; a login that       *)
(* fails leaves current_user None and the shell at the main menu.      *)
C27_DashboardNeedsUser ==
    [][/\ \A u \in Usernames, p \in Passwords :
             (pc = "menu" /\ Accepted(users, u, p) = {}
              /\ Login(u, p, "none"))
             => current_user' = {} /\ pc' = "menu"
       /\ pc' = "menu" => current_user' = {}
       /\ pc' \in {"dashboard", "clients"}
             => \E u \in users' :
                   current_user' = {[id |-> u.id, username |-> u.username,
                                     is_admin |-> (u.is_admin = 1)]}
       /\ (pc = "menu" /\ pc' = "dashboard")
             => \E u \in Usernames, p \in Passwords :
                   /\ Accepted(users, u, p) # {}
                   /\ current_user' = {authenticate_user(users, u, p)}]_vars

(* The second user works in the client menu. *)
C27_Witness ==
    /\ pc = "clients"
    /\ \E u \in users : u.id = 2 /\ current_user = {Summary(u)}
====
